---- MODULE Spec2Model ----
(***************************************************************************)
(* State-machine model of the GameServer class of src/server.js: the game  *)
(* registry (this.games), the player directory (this.players), the timers  *)
(* the class arms with setTimeout and cancels with clearTimeout, and the   *)
(* events it broadcasts with io.to(gameId).emit.  JavaScript runs every    *)
(* socket handler and every timer callback to completion on one thread, so *)
(* each handler and each callback is one atomic action.                    *)
(*                                                                         *)
(* Left out: the wall-clock values startTime, endTime, createdAt, joinedAt  *)
(* and serverTime, playerName, console logging, the per-socket             *)
(* acknowledgements, the HTTP endpoints and the write-only endReason       *)
(* (reported in game_ended).  endedAt is kept as a flag (set / not set).   *)
(* Durations are whole milliseconds.  Timers fire in any order: the delays *)
(* are chosen by the callers.                                              *)
(*                                                                         *)
(* The methods write everything else the code writes.  Three things the    *)
(* code writes and never reads back are the socketId copy inside a game's  *)
(* player entry, the eliminatedAt / eliminationReason of a player, and the *)
(* delay a timer was armed with.  Spec stores the state without them       *)
(* (GameView, ClosureView); RecordSpec stores them, over fewer ids.         *)
(***************************************************************************)
EXTENDS Integers, Sequences, FiniteSets, TLC

\* ---------------------------------------------------------------- bounds
\* number of setTimeout callbacks that may be pending at the same time
MaxTimers == 2
\* number of socket connections
MaxSockets == 2
\* number of clock ticks Date.now() advances in RecordSpec
MaxClock == 2

TimerIds == 1..MaxTimers
SocketIds == 1..MaxSockets

\* ---------------------------------------------------------------- inputs
GameIds == {"G1"}
\* ids are arbitrary client strings; "A_A" contains the separator of timerKey
PlayerIds == {"A", "A_A"}
\* (hunterId, survivorId) pairs a client sends with start_chase / stop_chase
ChasePairs == { <<"A", "A">>, <<"A", "A_A">>, <<"A_A", "A">> }
\* (role, ability) pairs a client sends with join_game
Profiles ==
  { [role |-> "survivor", ability |-> "MERCENARY"],
    [role |-> "hunter", ability |-> "NONE"] }
\* reason strings a client sends with eliminate_player / end_game
Reasons == {"manual"}
\* optional durations of start_game / start_elimination_risk; 0 is "not given"
NoDuration == 0
GameDurationInputs == {NoDuration, 1000}
RiskDurationInputs == {NoDuration, 200}
\* the player ids RecordSpec draws from
RecPlayerIds == {"A"}

\* ------------------------------------------------------- program constants
DefaultGameDuration == 600000
DefaultEliminationRiskDuration == 100000
DefaultChaseCountdown == 5000
MercenaryMultiplier == 3
GhostChaseCountdown == 3000
CleanupDelay == 300000

\* ---------------------------------------------------------------- values
\* null / undefined timer handle
NoTimer == 0
\* a slot of the runtime's timer table holding no pending callback
Free == [kind |-> "free"]
\* games.get(id) === undefined
NoGame == [status |-> "absent"]
\* game.players.get(id) === undefined
NoPlayer == [status |-> "absent"]
\* this.players.get(socketId) === undefined
NoBinding == [gameId |-> "", playerId |-> ""]

VARIABLES
  games,     \* GameServer.games : gameId -> game
  players,   \* GameServer.players : socketId -> binding
  timeouts,  \* the runtime's pending setTimeout callbacks : handle -> closure
  emitted,   \* the events broadcast by the last step, in order
  lastOp,    \* the handler or callback that ran in the last step, its result
  now        \* Date.now()

vars == <<games, players, timeouts, emitted, lastOp, now>>

\* `${hunterId}_${survivorId}`
timerKey(hunterId, survivorId) == hunterId \o "_" \o survivorId

ChaseKeys == { timerKey(c[1], c[2]) : c \in ChasePairs }

\* ---------------------------------------------------------------- runtime
\* The state the methods work on, threaded through a handler.
World == [games |-> games, players |-> players, timeouts |-> timeouts,
          emitted |-> <<>>, overflow |-> FALSE, now |-> now]

emit(w, ev) == [w EXCEPT !.emitted = Append(@, ev)]

FreeHandles(w) == { t \in TimerIds : w.timeouts[t] = Free }

\* the handle the next setTimeout returns
NewHandle(w) ==
  IF FreeHandles(w) = {} THEN NoTimer
  ELSE CHOOSE t \in FreeHandles(w) : \A u \in FreeHandles(w) : t <= u

\* setTimeout(callback, delay): closure holds the callback's captured
\* arguments and the delay; overflow marks a run beyond MaxTimers
setTimeout(w, closure) ==
  IF FreeHandles(w) = {} THEN [w EXCEPT !.overflow = TRUE]
  ELSE [w EXCEPT !.timeouts[NewHandle(w)] = closure]

\* clearTimeout(handle): the callback of a pending timer will not run;
\* no effect on null and on a handle that is not pending
clearTimeout(w, handle) ==
  IF handle = NoTimer THEN w ELSE [w EXCEPT !.timeouts[handle] = Free]

RECURSIVE clearAll(_, _)
\* map.forEach(timer => clearTimeout(timer))
clearAll(w, handles) ==
  IF handles = {} THEN w
  ELSE LET h == CHOOSE x \in handles : TRUE
       IN clearAll(clearTimeout(w, h), handles \ {h})

\* object[field] = value: adds the property or overwrites it
assign(object, field, value) ==
  [k \in DOMAIN object \cup {field} |->
     IF k = field THEN value ELSE object[k]]

\* ---------------------------------------------------------------- methods
DefaultSettings ==
  [gameDuration |-> DefaultGameDuration,
   eliminationRiskDuration |-> DefaultEliminationRiskDuration,
   chaseCountdown |-> DefaultChaseCountdown,
   mercenaryMultiplier |-> MercenaryMultiplier,
   ghostChaseCountdown |-> GhostChaseCountdown]

NewGame(gameId) ==
  [id |-> gameId,
   players |-> [p \in PlayerIds |-> NoPlayer],
   status |-> "waiting",
   settings |-> DefaultSettings,
   timers |-> [gameTimer |-> NoTimer,
               eliminationRiskTimers |-> [p \in PlayerIds |-> NoTimer],
               chaseTimers |-> [k \in ChaseKeys |-> NoTimer]],
   endedAt |-> FALSE]

getOrCreateGame(w, gameId) ==
  IF w.games[gameId] = NoGame
  THEN [w EXCEPT !.games[gameId] = NewGame(gameId)]
  ELSE w

\* joinGame that keeps the entry of a player id that is already in the game
joinGame_keepsEntry(w, socketId, gameId, playerId, profile) ==
  LET w1 == getOrCreateGame(w, gameId)
      w2 == [w1 EXCEPT !.players[socketId] =
                          [gameId |-> gameId, playerId |-> playerId]]
  IN IF w1.games[gameId].players[playerId] # NoPlayer THEN w2
     ELSE [w2 EXCEPT !.games[gameId].players[playerId] =
             [playerId |-> playerId, role |-> profile.role,
              ability |-> profile.ability, socketId |-> socketId,
              status |-> "alive"]]

joinGame(w, socketId, gameId, playerId, profile) ==
  LET w1 == getOrCreateGame(w, gameId)
      w2 == [w1 EXCEPT !.players[socketId] =
                          [gameId |-> gameId, playerId |-> playerId]]
  IN [w2 EXCEPT !.games[gameId].players[playerId] =
         [playerId |-> playerId, role |-> profile.role,
          ability |-> profile.ability, socketId |-> socketId,
          status |-> "alive"]]

cleanupGame(w, gameId) ==
  IF w.games[gameId] = NoGame THEN w
  ELSE [w EXCEPT
          !.players = [s \in SocketIds |->
                         IF @[s].gameId = gameId THEN NoBinding ELSE @[s]],
          !.games[gameId] = NoGame]

\* endGame that cancels the game timer and the elimination-risk timers only
endGame_keepsChaseTimers(w, gameId, reason) ==
  IF w.games[gameId] = NoGame THEN [ok |-> FALSE, w |-> w]
  ELSE
    LET game == w.games[gameId]
        w1 == [w EXCEPT !.games[gameId].status = "ended",
                        !.games[gameId].endedAt = TRUE]
        w2 == [clearTimeout(w1, game.timers.gameTimer)
                 EXCEPT !.games[gameId].timers.gameTimer = NoTimer]
        w3 == [clearAll(w2, { game.timers.eliminationRiskTimers[p] :
                                p \in PlayerIds })
                 EXCEPT !.games[gameId].timers.eliminationRiskTimers =
                           [p \in PlayerIds |-> NoTimer]]
        w5 == emit(w3, [type |-> "game_ended", gameId |-> gameId,
                        reason |-> reason])
        w6 == setTimeout(w5, [kind |-> "cleanup", gameId |-> gameId,
                              delay |-> CleanupDelay])
    IN [ok |-> TRUE, w |-> w6]

endGame(w, gameId, reason) ==
  IF w.games[gameId] = NoGame THEN [ok |-> FALSE, w |-> w]
  ELSE
    LET game == w.games[gameId]
        w1 == [w EXCEPT !.games[gameId].status = "ended",
                        !.games[gameId].endedAt = TRUE]
        w2 == [clearTimeout(w1, game.timers.gameTimer)
                 EXCEPT !.games[gameId].timers.gameTimer = NoTimer]
        w3 == [clearAll(w2, { game.timers.eliminationRiskTimers[p] :
                                p \in PlayerIds })
                 EXCEPT !.games[gameId].timers.eliminationRiskTimers =
                           [p \in PlayerIds |-> NoTimer]]
        w4 == [clearAll(w3, { game.timers.chaseTimers[k] : k \in ChaseKeys })
                 EXCEPT !.games[gameId].timers.chaseTimers =
                           [k \in ChaseKeys |-> NoTimer]]
        w5 == emit(w4, [type |-> "game_ended", gameId |-> gameId,
                        reason |-> reason])
        w6 == setTimeout(w5, [kind |-> "cleanup", gameId |-> gameId,
                              delay |-> CleanupDelay])
    IN [ok |-> TRUE, w |-> w6]

\* startGameTimer that arms the timer and leaves the status as it is
startGameTimer_keepsStatus(w, gameId, customDuration) ==
  IF w.games[gameId] = NoGame THEN [ok |-> FALSE, w |-> w]
  ELSE
    LET game == w.games[gameId]
        w1 == clearTimeout(w, game.timers.gameTimer)
        duration == IF customDuration # NoDuration THEN customDuration
                    ELSE game.settings.gameDuration
        w2 == w1
        w3 == [setTimeout(w2, [kind |-> "game", gameId |-> gameId,
                               delay |-> duration])
                 EXCEPT !.games[gameId].timers.gameTimer = NewHandle(w2)]
        w4 == emit(w3, [type |-> "game_timer_started", gameId |-> gameId,
                        duration |-> duration])
    IN [ok |-> TRUE, w |-> w4]

startGameTimer(w, gameId, customDuration) ==
  IF w.games[gameId] = NoGame THEN [ok |-> FALSE, w |-> w]
  ELSE
    LET game == w.games[gameId]
        w1 == clearTimeout(w, game.timers.gameTimer)
        duration == IF customDuration # NoDuration THEN customDuration
                    ELSE game.settings.gameDuration
        w2 == [w1 EXCEPT !.games[gameId].status = "playing"]
        w3 == [setTimeout(w2, [kind |-> "game", gameId |-> gameId,
                               delay |-> duration])
                 EXCEPT !.games[gameId].timers.gameTimer = NewHandle(w2)]
        w4 == emit(w3, [type |-> "game_timer_started", gameId |-> gameId,
                        duration |-> duration])
    IN [ok |-> TRUE, w |-> w4]

\* checkGameEndConditions without its status test
checkGameEndConditions_anyStatus(w, gameId) ==
  IF w.games[gameId] = NoGame THEN w
  ELSE
    LET game == w.games[gameId]
        aliveSurvivors ==
          { p \in PlayerIds : /\ game.players[p] # NoPlayer
                              /\ game.players[p].role = "survivor"
                              /\ game.players[p].status # "eliminated" }
    IN IF Cardinality(aliveSurvivors) = 0
       THEN endGame(w, gameId, "all_survivors_eliminated").w
       ELSE w

checkGameEndConditions(w, gameId) ==
  IF w.games[gameId] = NoGame \/ w.games[gameId].status # "playing" THEN w
  ELSE
    LET game == w.games[gameId]
        aliveSurvivors ==
          { p \in PlayerIds : /\ game.players[p] # NoPlayer
                              /\ game.players[p].role = "survivor"
                              /\ game.players[p].status # "eliminated" }
    IN IF Cardinality(aliveSurvivors) = 0
       THEN endGame(w, gameId, "all_survivors_eliminated").w
       ELSE w

\* eliminatePlayer that evaluates the end condition before it broadcasts
eliminatePlayer_endsFirst(w, gameId, playerId, reason) ==
  IF w.games[gameId] = NoGame THEN [ok |-> FALSE, w |-> w]
  ELSE IF w.games[gameId].players[playerId] = NoPlayer
  THEN [ok |-> FALSE, w |-> w]
  ELSE
    LET game == w.games[gameId]
        timer == game.timers.eliminationRiskTimers[playerId]
        w1 == [clearTimeout(w, timer)
                 EXCEPT !.games[gameId].timers.eliminationRiskTimers[playerId]
                           = NoTimer]
        player == game.players[playerId]
        w2 == [w1 EXCEPT !.games[gameId].players[playerId] =
                 assign(assign([player EXCEPT !.status = "eliminated"],
                               "eliminatedAt", w.now),
                        "eliminationReason", reason)]
        w3 == checkGameEndConditions(w2, gameId)
    IN [ok |-> TRUE,
        w |-> emit(w3, [type |-> "player_eliminated", gameId |-> gameId,
                        playerId |-> playerId, reason |-> reason])]

eliminatePlayer(w, gameId, playerId, reason) ==
  IF w.games[gameId] = NoGame THEN [ok |-> FALSE, w |-> w]
  ELSE IF w.games[gameId].players[playerId] = NoPlayer
  THEN [ok |-> FALSE, w |-> w]
  ELSE
    LET game == w.games[gameId]
        timer == game.timers.eliminationRiskTimers[playerId]
        w1 == [clearTimeout(w, timer)
                 EXCEPT !.games[gameId].timers.eliminationRiskTimers[playerId]
                           = NoTimer]
        player == game.players[playerId]
        w2 == [w1 EXCEPT !.games[gameId].players[playerId] =
                 assign(assign([player EXCEPT !.status = "eliminated"],
                               "eliminatedAt", w.now),
                        "eliminationReason", reason)]
        w3 == emit(w2, [type |-> "player_eliminated", gameId |-> gameId,
                        playerId |-> playerId, reason |-> reason])
    IN [ok |-> TRUE, w |-> checkGameEndConditions(w3, gameId)]

\* startEliminationRiskTimer that arms every player with the base duration
startEliminationRiskTimer_noMultiplier(w, gameId, playerId, customDuration) ==
  IF w.games[gameId] = NoGame THEN [ok |-> FALSE, w |-> w]
  ELSE IF w.games[gameId].players[playerId] = NoPlayer
  THEN [ok |-> FALSE, w |-> w]
  ELSE
    LET game == w.games[gameId]
        player == game.players[playerId]
        base == IF customDuration # NoDuration THEN customDuration
                ELSE game.settings.eliminationRiskDuration
        duration == base
        w1 == clearTimeout(w, game.timers.eliminationRiskTimers[playerId])
        w2 == [setTimeout(w1, [kind |-> "risk", gameId |-> gameId,
                               playerId |-> playerId, delay |-> duration])
                 EXCEPT !.games[gameId].timers.eliminationRiskTimers[playerId]
                           = NewHandle(w1),
                        !.games[gameId].players[playerId].status =
                           "elimination_risk"]
        w3 == emit(w2, [type |-> "elimination_risk_started",
                        gameId |-> gameId, playerId |-> playerId,
                        duration |-> duration,
                        isMercenary |-> player.ability = "MERCENARY"])
    IN [ok |-> TRUE, w |-> w3]

startEliminationRiskTimer(w, gameId, playerId, customDuration) ==
  IF w.games[gameId] = NoGame THEN [ok |-> FALSE, w |-> w]
  ELSE IF w.games[gameId].players[playerId] = NoPlayer
  THEN [ok |-> FALSE, w |-> w]
  ELSE
    LET game == w.games[gameId]
        player == game.players[playerId]
        base == IF customDuration # NoDuration THEN customDuration
                ELSE game.settings.eliminationRiskDuration
        duration == IF player.ability = "MERCENARY"
                    THEN base * game.settings.mercenaryMultiplier
                    ELSE base
        w1 == clearTimeout(w, game.timers.eliminationRiskTimers[playerId])
        w2 == [setTimeout(w1, [kind |-> "risk", gameId |-> gameId,
                               playerId |-> playerId, delay |-> duration])
                 EXCEPT !.games[gameId].timers.eliminationRiskTimers[playerId]
                           = NewHandle(w1),
                        !.games[gameId].players[playerId].status =
                           "elimination_risk"]
        w3 == emit(w2, [type |-> "elimination_risk_started",
                        gameId |-> gameId, playerId |-> playerId,
                        duration |-> duration,
                        isMercenary |-> player.ability = "MERCENARY"])
    IN [ok |-> TRUE, w |-> w3]

\* stopEliminationRiskTimer that resets the status before it looks for the timer
stopEliminationRiskTimer_resetsFirst(w, gameId, playerId) ==
  IF w.games[gameId] = NoGame THEN [ok |-> FALSE, w |-> w]
  ELSE
    LET game == w.games[gameId]
        timer == game.timers.eliminationRiskTimers[playerId]
        w0 == IF game.players[playerId] # NoPlayer
              THEN [w EXCEPT !.games[gameId].players[playerId].status =
                                "alive"]
              ELSE w
    IN IF timer # NoTimer
       THEN
         LET w1 == [clearTimeout(w0, timer)
                      EXCEPT !.games[gameId].timers
                                .eliminationRiskTimers[playerId] = NoTimer]
             w3 == emit(w1, [type |-> "elimination_risk_stopped",
                             gameId |-> gameId, playerId |-> playerId])
         IN [ok |-> TRUE, w |-> w3]
       ELSE [ok |-> FALSE, w |-> w0]

stopEliminationRiskTimer(w, gameId, playerId) ==
  IF w.games[gameId] = NoGame THEN [ok |-> FALSE, w |-> w]
  ELSE
    LET game == w.games[gameId]
        timer == game.timers.eliminationRiskTimers[playerId]
    IN IF timer # NoTimer
       THEN
         LET w1 == [clearTimeout(w, timer)
                      EXCEPT !.games[gameId].timers
                                .eliminationRiskTimers[playerId] = NoTimer]
             w2 == IF game.players[playerId] # NoPlayer
                   THEN [w1 EXCEPT !.games[gameId].players[playerId].status =
                                      "alive"]
                   ELSE w1
             w3 == emit(w2, [type |-> "elimination_risk_stopped",
                             gameId |-> gameId, playerId |-> playerId])
         IN [ok |-> TRUE, w |-> w3]
       ELSE [ok |-> FALSE, w |-> w]

startChaseCountdown(w, gameId, hunterId, survivorId, isGhostAbility) ==
  IF w.games[gameId] = NoGame THEN [ok |-> FALSE, w |-> w]
  ELSE
    LET game == w.games[gameId]
        duration == IF isGhostAbility THEN game.settings.ghostChaseCountdown
                    ELSE game.settings.chaseCountdown
        key == timerKey(hunterId, survivorId)
        w1 == clearTimeout(w, game.timers.chaseTimers[key])
        w2 == [setTimeout(w1, [kind |-> "chase", gameId |-> gameId,
                               hunterId |-> hunterId,
                               survivorId |-> survivorId,
                               delay |-> duration])
                 EXCEPT !.games[gameId].timers.chaseTimers[key] =
                           NewHandle(w1)]
        w3 == emit(w2, [type |-> "chase_countdown_started",
                        gameId |-> gameId, hunterId |-> hunterId,
                        survivorId |-> survivorId, duration |-> duration,
                        isGhostAbility |-> isGhostAbility])
    IN [ok |-> TRUE, w |-> w3]

stopChaseCountdown(w, gameId, hunterId, survivorId) ==
  IF w.games[gameId] = NoGame THEN [ok |-> FALSE, w |-> w]
  ELSE
    LET game == w.games[gameId]
        key == timerKey(hunterId, survivorId)
        timer == game.timers.chaseTimers[key]
    IN IF timer # NoTimer
       THEN
         LET w1 == [clearTimeout(w, timer)
                      EXCEPT !.games[gameId].timers.chaseTimers[key] =
                                NoTimer]
             w2 == emit(w1, [type |-> "chase_countdown_stopped",
                             gameId |-> gameId, hunterId |-> hunterId,
                             survivorId |-> survivorId])
         IN [ok |-> TRUE, w |-> w2]
       ELSE [ok |-> FALSE, w |-> w]

chaseTimeout(w, gameId, hunterId, survivorId) ==
  IF w.games[gameId] = NoGame THEN w
  ELSE
    LET key == timerKey(hunterId, survivorId)
        w1 == [w EXCEPT !.games[gameId].timers.chaseTimers[key] = NoTimer]
    IN emit(w1, [type |-> "chase_timeout", gameId |-> gameId,
                 hunterId |-> hunterId, survivorId |-> survivorId])

\* disconnectPlayer that evaluates the end condition after the removal
disconnectPlayer_checksEnd(w, socketId) ==
  IF w.players[socketId] = NoBinding THEN w
  ELSE
    LET gameId == w.players[socketId].gameId
        playerId == w.players[socketId].playerId
        w3 ==
          IF w.games[gameId] # NoGame
          THEN
            LET timer == w.games[gameId].timers.eliminationRiskTimers[playerId]
                w1 == [w EXCEPT !.games[gameId].players[playerId] = NoPlayer]
                w2 == [clearTimeout(w1, timer)
                         EXCEPT !.games[gameId].timers
                                   .eliminationRiskTimers[playerId] = NoTimer]
            IN checkGameEndConditions(
                 emit(w2, [type |-> "player_disconnected", gameId |-> gameId,
                           playerId |-> playerId]), gameId)
          ELSE w
    IN [w3 EXCEPT !.players[socketId] = NoBinding]

disconnectPlayer(w, socketId) ==
  IF w.players[socketId] = NoBinding THEN w
  ELSE
    LET gameId == w.players[socketId].gameId
        playerId == w.players[socketId].playerId
        w3 ==
          IF w.games[gameId] # NoGame
          THEN
            LET timer == w.games[gameId].timers.eliminationRiskTimers[playerId]
                w1 == [w EXCEPT !.games[gameId].players[playerId] = NoPlayer]
                w2 == [clearTimeout(w1, timer)
                         EXCEPT !.games[gameId].timers
                                   .eliminationRiskTimers[playerId] = NoTimer]
            IN emit(w2, [type |-> "player_disconnected", gameId |-> gameId,
                         playerId |-> playerId])
          ELSE w
    IN [w3 EXCEPT !.players[socketId] = NoBinding]

\* ---------------------------------------------------------------- actions
NoOp == [op |-> "init", ok |-> TRUE, gameId |-> "", playerId |-> "",
         hunterId |-> "", survivorId |-> "", socketId |-> 0, timer |-> NoTimer,
         duration |-> NoDuration]

\* what lastOp records: the arguments of a call that took effect, and only
\* the name of one that reported failure or found nothing to do
Outcome(ok, op) == IF ok THEN op ELSE [NoOp EXCEPT !.op = op.op, !.ok = FALSE]

\* a pending callback without the delay it was armed with
ClosureView(closure) == [k \in DOMAIN closure \ {"delay"} |-> closure[k]]

\* a player entry without the fields no code reads
PlayerView(player) ==
  [k \in DOMAIN player \ {"socketId", "eliminatedAt", "eliminationReason"}
     |-> player[k]]

GameView(game) ==
  IF game = NoGame THEN NoGame
  ELSE [game EXCEPT !.players = [p \in PlayerIds |-> PlayerView(@[p])]]

\* commit the world a handler leaves behind, without the write-only fields
Commit(w, ok, op) ==
  /\ ~w.overflow
  /\ games' = [g \in GameIds |-> GameView(w.games[g])]
  /\ players' = w.players
  /\ timeouts' = [t \in TimerIds |-> ClosureView(w.timeouts[t])]
  /\ emitted' = w.emitted
  /\ lastOp' = Outcome(ok, op)
  /\ now' = now

\* commit the whole world a handler leaves behind
CommitAll(w, ok, op) ==
  /\ ~w.overflow
  /\ games' = w.games
  /\ players' = w.players
  /\ timeouts' = w.timeouts
  /\ emitted' = w.emitted
  /\ lastOp' = Outcome(ok, op)
  /\ now' = now

\* the world a timer callback starts in: its own timer is no longer pending
Fired(t) == [World EXCEPT !.timeouts[t] = Free]

Init ==
  /\ games = [g \in GameIds |-> NoGame]
  /\ players = [s \in SocketIds |-> NoBinding]
  /\ timeouts = [t \in TimerIds |-> Free]
  /\ emitted = <<>>
  /\ lastOp = NoOp
  /\ now = 0

\* socket.on('join_game')
JoinGame ==
  \E s \in SocketIds, g \in GameIds, p \in PlayerIds, pr \in Profiles :
    Commit(emit(joinGame(World, s, g, p, pr),
                [type |-> "player_joined", gameId |-> g, playerId |-> p,
                 role |-> pr.role, ability |-> pr.ability]),
           TRUE,
           [NoOp EXCEPT !.op = "joinGame", !.socketId = s, !.gameId = g,
                        !.playerId = p])

\* socket.on('start_game')
StartGame ==
  \E g \in GameIds, d \in GameDurationInputs :
    LET r == startGameTimer(World, g, d)
    IN Commit(r.w, r.ok,
              [NoOp EXCEPT !.op = "startGameTimer", !.gameId = g])

\* socket.on('start_elimination_risk')
StartEliminationRisk ==
  \E g \in GameIds, p \in PlayerIds, d \in RiskDurationInputs :
    LET r == startEliminationRiskTimer(World, g, p, d)
    IN Commit(r.w, r.ok,
              [NoOp EXCEPT !.op = "startEliminationRiskTimer",
                           !.gameId = g, !.playerId = p])

\* socket.on('stop_elimination_risk')
StopEliminationRisk ==
  \E g \in GameIds, p \in PlayerIds :
    LET r == stopEliminationRiskTimer(World, g, p)
    IN Commit(r.w, r.ok,
              [NoOp EXCEPT !.op = "stopEliminationRiskTimer",
                           !.gameId = g, !.playerId = p])

\* socket.on('start_chase')
StartChase ==
  \E g \in GameIds, c \in ChasePairs, ghost \in BOOLEAN :
    LET r == startChaseCountdown(World, g, c[1], c[2], ghost)
    IN Commit(r.w, r.ok,
              [NoOp EXCEPT !.op = "startChaseCountdown", !.gameId = g,
                           !.hunterId = c[1], !.survivorId = c[2]])

\* socket.on('stop_chase')
StopChase ==
  \E g \in GameIds, c \in ChasePairs :
    LET r == stopChaseCountdown(World, g, c[1], c[2])
    IN Commit(r.w, r.ok,
              [NoOp EXCEPT !.op = "stopChaseCountdown", !.gameId = g,
                           !.hunterId = c[1], !.survivorId = c[2]])

\* socket.on('eliminate_player')
EliminatePlayer ==
  \E g \in GameIds, p \in PlayerIds, reason \in Reasons :
    LET r == eliminatePlayer(World, g, p, reason)
    IN Commit(r.w, r.ok,
              [NoOp EXCEPT !.op = "eliminatePlayer", !.gameId = g,
                           !.playerId = p])

\* socket.on('end_game')
EndGame ==
  \E g \in GameIds, reason \in Reasons :
    LET r == endGame(World, g, reason)
    IN Commit(r.w, r.ok, [NoOp EXCEPT !.op = "endGame", !.gameId = g])

\* socket.on('disconnect')
Disconnect ==
  \E s \in SocketIds :
    Commit(disconnectPlayer(World, s), players[s] # NoBinding,
           [NoOp EXCEPT !.op = "disconnectPlayer", !.socketId = s,
                        !.gameId = players[s].gameId,
                        !.playerId = players[s].playerId])

\* the callback armed by startGameTimer runs
GameTimerFires ==
  \E t \in TimerIds :
    /\ timeouts[t].kind = "game"
    /\ LET r == endGame(Fired(t), timeouts[t].gameId, "timeout")
       IN Commit(r.w, r.ok,
                 [NoOp EXCEPT !.op = "gameTimerFires",
                              !.gameId = timeouts[t].gameId, !.timer = t])

\* the callback armed by startEliminationRiskTimer runs
EliminationRiskTimerFires ==
  \E t \in TimerIds :
    /\ timeouts[t].kind = "risk"
    /\ LET r == eliminatePlayer(Fired(t), timeouts[t].gameId,
                                timeouts[t].playerId,
                                "elimination_risk_timeout")
       IN Commit(r.w, r.ok,
                 [NoOp EXCEPT !.op = "eliminationRiskTimerFires",
                              !.gameId = timeouts[t].gameId,
                              !.playerId = timeouts[t].playerId,
                              !.timer = t])

\* the callback armed by startChaseCountdown runs
ChaseTimerFires ==
  \E t \in TimerIds :
    /\ timeouts[t].kind = "chase"
    /\ Commit(chaseTimeout(Fired(t), timeouts[t].gameId,
                           timeouts[t].hunterId, timeouts[t].survivorId),
              games[timeouts[t].gameId] # NoGame,
              [NoOp EXCEPT !.op = "chaseTimerFires",
                           !.gameId = timeouts[t].gameId,
                           !.hunterId = timeouts[t].hunterId,
                           !.survivorId = timeouts[t].survivorId,
                           !.timer = t])

\* the callback armed by endGame runs
CleanupTimerFires ==
  \E t \in TimerIds :
    /\ timeouts[t].kind = "cleanup"
    /\ Commit(cleanupGame(Fired(t), timeouts[t].gameId),
              games[timeouts[t].gameId] # NoGame,
              [NoOp EXCEPT !.op = "cleanupTimerFires",
                           !.gameId = timeouts[t].gameId, !.timer = t])

Next ==
  \/ JoinGame
  \/ StartGame
  \/ StartEliminationRisk
  \/ StopEliminationRisk
  \/ StartChase
  \/ StopChase
  \/ EliminatePlayer
  \/ EndGame
  \/ Disconnect
  \/ GameTimerFires
  \/ EliminationRiskTimerFires
  \/ ChaseTimerFires
  \/ CleanupTimerFires

Spec == Init /\ [][Next]_vars

\* A pending callback eventually runs: the runtime's timers are fair.
\* the games' lifecycle alone: join, start, end and the two timers they arm
LifecycleNext ==
  \/ JoinGame
  \/ StartGame
  \/ EndGame
  \/ GameTimerFires
  \/ CleanupTimerFires

FairSpec ==
  /\ Init
  /\ [][LifecycleNext]_vars
  /\ WF_vars(GameTimerFires)
  /\ WF_vars(CleanupTimerFires)

\* The same handlers and callbacks with the whole state stored, for one
\* player id, and a clock that advances between them.
RecJoinGame ==
  \E s \in SocketIds, g \in GameIds, p \in RecPlayerIds, pr \in Profiles :
    CommitAll(emit(joinGame(World, s, g, p, pr),
                   [type |-> "player_joined", gameId |-> g, playerId |-> p,
                    role |-> pr.role, ability |-> pr.ability]),
              TRUE,
              [NoOp EXCEPT !.op = "joinGame", !.socketId = s, !.gameId = g,
                           !.playerId = p])

RecStartEliminationRisk ==
  \E g \in GameIds, p \in RecPlayerIds, d \in RiskDurationInputs :
    LET r == startEliminationRiskTimer(World, g, p, d)
    IN CommitAll(r.w, r.ok,
                 [NoOp EXCEPT !.op = "startEliminationRiskTimer",
                              !.gameId = g, !.playerId = p, !.duration = d])

RecStopEliminationRisk ==
  \E g \in GameIds, p \in RecPlayerIds :
    LET r == stopEliminationRiskTimer(World, g, p)
    IN CommitAll(r.w, r.ok,
                 [NoOp EXCEPT !.op = "stopEliminationRiskTimer",
                              !.gameId = g, !.playerId = p])

RecEliminatePlayer ==
  \E g \in GameIds, p \in RecPlayerIds, reason \in Reasons :
    LET r == eliminatePlayer(World, g, p, reason)
    IN CommitAll(r.w, r.ok,
                 [NoOp EXCEPT !.op = "eliminatePlayer", !.gameId = g,
                              !.playerId = p])

RecEliminationRiskTimerFires ==
  \E t \in TimerIds :
    /\ timeouts[t].kind = "risk"
    /\ LET r == eliminatePlayer(Fired(t), timeouts[t].gameId,
                                timeouts[t].playerId,
                                "elimination_risk_timeout")
       IN CommitAll(r.w, r.ok,
                    [NoOp EXCEPT !.op = "eliminationRiskTimerFires",
                                 !.gameId = timeouts[t].gameId,
                                 !.playerId = timeouts[t].playerId,
                                 !.timer = t])

RecDisconnect ==
  \E s \in SocketIds :
    CommitAll(disconnectPlayer(World, s), players[s] # NoBinding,
              [NoOp EXCEPT !.op = "disconnectPlayer", !.socketId = s,
                           !.gameId = players[s].gameId,
                           !.playerId = players[s].playerId])

\* time passes between two handlers
Tick ==
  /\ now < MaxClock
  /\ now' = now + 1
  /\ emitted' = <<>>
  /\ lastOp' = [NoOp EXCEPT !.op = "tick"]
  /\ UNCHANGED <<games, players, timeouts>>

RecordNext ==
  \/ RecJoinGame
  \/ RecStartEliminationRisk
  \/ RecStopEliminationRisk
  \/ RecEliminatePlayer
  \/ RecEliminationRiskTimerFires
  \/ RecDisconnect
  \/ Tick

RecordSpec == Init /\ [][RecordNext]_vars

\* ------------------------------------------------------------- vocabulary
TimerOps == {"gameTimerFires", "eliminationRiskTimerFires", "chaseTimerFires"}

EliminateOps == {"eliminatePlayer", "eliminationRiskTimerFires"}

\* the operations that report success or failure to their caller
CoreOps ==
  {"startGameTimer", "startEliminationRiskTimer", "stopEliminationRiskTimer",
   "startChaseCountdown", "stopChaseCountdown", "eliminatePlayer", "endGame"}

Emitted(type, g) ==
  \E i \in DOMAIN emitted : emitted[i].type = type /\ emitted[i].gameId = g

\* the survivors of g that are not eliminated
SurvivorsLeft(game) ==
  { q \in PlayerIds : /\ game.players[q] # NoPlayer
                      /\ game.players[q].role = "survivor"
                      /\ game.players[q].status # "eliminated" }

\* the player ids that have an entry in a game
PlayersOf(game) ==
  IF game = NoGame THEN {}
  ELSE { q \in PlayerIds : game.players[q] # NoPlayer }

\* the timer handles a game holds
HeldTimers(game) ==
  ({game.timers.gameTimer}
     \cup { game.timers.eliminationRiskTimers[p] : p \in PlayerIds }
     \cup { game.timers.chaseTimers[k] : k \in ChaseKeys }) \ {NoTimer}

\* every handle a game holds is a pending callback of that game and key
HandlesLive ==
  \A g \in GameIds :
    games[g] # NoGame =>
      /\ games[g].timers.gameTimer # NoTimer =>
           timeouts[games[g].timers.gameTimer] =
             [kind |-> "game", gameId |-> g]
      /\ \A p \in PlayerIds :
           games[g].timers.eliminationRiskTimers[p] # NoTimer =>
             timeouts[games[g].timers.eliminationRiskTimers[p]] =
               [kind |-> "risk", gameId |-> g, playerId |-> p]
      /\ \A k \in ChaseKeys :
           games[g].timers.chaseTimers[k] # NoTimer =>
             /\ timeouts[games[g].timers.chaseTimers[k]].kind = "chase"
             /\ timeouts[games[g].timers.chaseTimers[k]].gameId = g
             /\ timerKey(timeouts[games[g].timers.chaseTimers[k]].hunterId,
                         timeouts[games[g].timers.chaseTimers[k]].survivorId)
                  = k

\* every binding of the directory names a game of the registry
BindingsHaveGame ==
  \A s \in SocketIds :
    players[s] # NoBinding => games[players[s].gameId] # NoGame

\* ------------------------------------------------------------------ C1
\* C1: once endGame(g, reason) has succeeded, no timer callback of game g
\* (game timer, elimination-risk timer, chase timer) runs again.
C1_NoCallbackAfterEndGame ==
  [][\A g \in GameIds :
       (games[g] # NoGame /\ games[g].endedAt) =>
         ~(\E t \in TimerIds :
              /\ timeouts[t].kind \in {"game", "risk", "chase"}
              /\ timeouts[t].gameId = g
              /\ lastOp'.op \in TimerOps
              /\ lastOp'.timer = t)]_vars

\* ------------------------------------------------------------------ C2
\* C2: while game g stays in the registry, its status never leaves "ended".
C2_EndedIsTerminal ==
  [][\A g \in GameIds :
       (games[g] # NoGame /\ games'[g] # NoGame /\ games[g].status = "ended")
         => games'[g].status = "ended"]_vars

\* ------------------------------------------------------------------ C3
\* C3: once a player entry of g has status "eliminated", no operation sets
\* the status of that player of g to "alive" or "elimination_risk".
C3_EliminatedIsTerminal ==
  [][\A g \in GameIds, p \in PlayerIds :
       (/\ games[g] # NoGame
        /\ games[g].players[p] # NoPlayer
        /\ games[g].players[p].status = "eliminated"
        /\ games'[g] # NoGame
        /\ games'[g].players[p] # NoPlayer)
         => games'[g].players[p].status = "eliminated"]_vars

\* ------------------------------------------------------------------ C4
\* C4: a successful eliminatePlayer(g, p, reason), called by a client or by
\* an elimination-risk timer, ends the game with "all_survivors_eliminated"
\* exactly when g was playing at the call and no survivor of g is left
\* un-eliminated after p is marked; otherwise the status of g is unchanged
\* and no game_ended is broadcast.
C4_WinCondition ==
  [][\A g \in GameIds, p \in PlayerIds :
       (/\ lastOp'.op \in EliminateOps
        /\ lastOp'.ok
        /\ lastOp'.gameId = g
        /\ lastOp'.playerId = p) =>
         LET ends == /\ games[g].status = "playing"
                     /\ SurvivorsLeft(games'[g]) = {}
         IN /\ games'[g].players[p].status = "eliminated"
            /\ emitted'[1].type = "player_eliminated"
            /\ emitted'[1].playerId = p
            /\ ends =>
                 /\ Len(emitted') = 2
                 /\ emitted'[2] = [type |-> "game_ended", gameId |-> g,
                                   reason |-> "all_survivors_eliminated"]
                 /\ games'[g].status = "ended"
            /\ ~ends =>
                 /\ Len(emitted') = 1
                 /\ games'[g].status = games[g].status]_vars

C4_Witness ==
  /\ lastOp.op = "eliminatePlayer"
  /\ lastOp.ok
  /\ Len(emitted) = 2
  /\ emitted[2].type = "game_ended"
  /\ emitted[2].reason = "all_survivors_eliminated"
  /\ \E q \in PlayerIds :
       /\ q # lastOp.playerId
       /\ games[lastOp.gameId].players[q] # NoPlayer
       /\ games[lastOp.gameId].players[q].role = "survivor"

\* ------------------------------------------------------------------ C5
\* C5: at most one pending timer per key: per game id, per (game id,
\* player id) and per (game id, hunterId, survivorId).
C5_OneTimerPerKey ==
  \A t1 \in TimerIds, t2 \in TimerIds :
    (/\ t1 # t2
     /\ timeouts[t1].kind \in {"game", "risk", "chase"})
      => timeouts[t1] # timeouts[t2]

\* ------------------------------------------------------------------ C6
\* C6: for every armed elimination-risk timer of (g, p) exactly one of the
\* two outcomes is observed, never both and never neither.  Never both: a
\* successful stopEliminationRisk(g, p) cancels the pending timer the game
\* holds for p and eliminates nobody; when the timer fires and the
\* elimination is applied, the game holds no timer for p any more, so that a
\* stopEliminationRisk(g, p) right after it fails and changes nothing; the
\* handles a game holds are always pending timers of that game and key.
\* Never neither: while an elimination-risk timer of (g, p) is pending,
\* stopEliminationRisk(g, p) would succeed or the timer's firing would apply
\* the elimination.
C6_CancelXorFire ==
  [][/\ HandlesLive'
     /\ \A g \in GameIds, p \in PlayerIds :
          /\ (/\ lastOp'.op = "stopEliminationRiskTimer"
              /\ lastOp'.ok
              /\ lastOp'.gameId = g
              /\ lastOp'.playerId = p) =>
               LET h == games[g].timers.eliminationRiskTimers[p]
               IN /\ h # NoTimer
                  /\ timeouts[h] =
                       [kind |-> "risk", gameId |-> g, playerId |-> p]
                  /\ timeouts' = [timeouts EXCEPT ![h] = Free]
                  /\ games'[g].timers.eliminationRiskTimers[p] = NoTimer
                  /\ ~Emitted("player_eliminated", g)'
          /\ (/\ lastOp'.op = "eliminationRiskTimerFires"
              /\ lastOp'.ok
              /\ lastOp'.gameId = g
              /\ lastOp'.playerId = p) =>
               /\ games'[g].players[p].status = "eliminated"
               /\ games'[g].timers.eliminationRiskTimers[p] = NoTimer
               /\ ~Emitted("elimination_risk_stopped", g)'
               /\ (LET r == stopEliminationRiskTimer(World, g, p)
                   IN ~r.ok /\ r.w = World)'
     /\ (\A t \in TimerIds :
           timeouts[t].kind = "risk" =>
             \/ stopEliminationRiskTimer(World, timeouts[t].gameId,
                                         timeouts[t].playerId).ok
             \/ eliminatePlayer(Fired(t), timeouts[t].gameId,
                                timeouts[t].playerId,
                                "elimination_risk_timeout").ok)']_vars

\* ------------------------------------------------------------------ C7
\* C7: with fair timers, every successful startGame(g) is followed by a
\* game_ended broadcast for g that leaves g with status "ended".
C7_GameEventuallyEnds ==
  \A g \in GameIds :
    (lastOp.op = "startGameTimer" /\ lastOp.ok /\ lastOp.gameId = g)
      ~> (/\ Emitted("game_ended", g)
          /\ games[g] # NoGame
          /\ games[g].status = "ended")

\* ------------------------------------------------------------------ C8
\* C8: a core operation that reports failure changes neither the registry,
\* nor the directory, nor any timer, and broadcasts nothing.
C8_FailureChangesNothing ==
  [][(lastOp'.op \in CoreOps /\ ~lastOp'.ok) =>
       /\ UNCHANGED <<games, players, timeouts>>
       /\ emitted' = <<>>]_vars

C8_Witness ==
  /\ lastOp.op = "stopEliminationRiskTimer"
  /\ ~lastOp.ok
  /\ \E g \in GameIds, p \in PlayerIds :
       /\ games[g] # NoGame
       /\ games[g].players[p] # NoPlayer
       /\ games[g].players[p].status = "eliminated"
       /\ games[g].timers.gameTimer # NoTimer

\* ------------------------------------------------------------------ C9
\* C9: disconnect(c) of a connection bound to (g, p) removes the entry of p
\* from g, cancels the elimination-risk timer of p, removes the binding of c
\* and broadcasts player_disconnected; the status of g, its game timer, its
\* chase timers, the other players, their timers and the other bindings stay
\* as they were and no game_ended is broadcast.  For an unbound c nothing
\* changes.
C9_DisconnectFrame ==
  [][/\ (lastOp'.op = "disconnectPlayer" /\ ~lastOp'.ok) =>
          /\ UNCHANGED <<games, players, timeouts>>
          /\ emitted' = <<>>
     /\ \A c \in SocketIds :
          (lastOp'.op = "disconnectPlayer" /\ lastOp'.ok
             /\ lastOp'.socketId = c) =>
            LET g == players[c].gameId
                p == players[c].playerId
                h == games[g].timers.eliminationRiskTimers[p]
            IN /\ players[c] # NoBinding
               /\ games[g] # NoGame
               /\ players' = [players EXCEPT ![c] = NoBinding]
               /\ games' =
                    [games EXCEPT
                       ![g].players[p] = NoPlayer,
                       ![g].timers.eliminationRiskTimers[p] = NoTimer]
               /\ timeouts' = IF h = NoTimer THEN timeouts
                              ELSE [timeouts EXCEPT ![h] = Free]
               /\ emitted' = <<[type |-> "player_disconnected",
                                gameId |-> g, playerId |-> p]>>]_vars

C9_Witness ==
  /\ lastOp.op = "disconnectPlayer"
  /\ lastOp.ok
  /\ LET g == lastOp.gameId
         p == lastOp.playerId
     IN /\ games[g].status = "playing"
        /\ games[g].timers.gameTimer # NoTimer
        /\ SurvivorsLeft(games[g]) = {}
        /\ \E t \in TimerIds :
             /\ timeouts[t].kind = "chase"
             /\ timeouts[t].gameId = g
             /\ timeouts[t].hunterId = p
             /\ games[g].timers.chaseTimers[timerKey(p, timeouts[t].survivorId)]
                  = t

\* ----------------------------------------------------------------- C10
\* C10: a successful eliminatePlayer(g, p, reason) of a player whose role is
\* not "survivor" does not end the game and broadcasts no game_ended.
C10_NonSurvivorNeverEnds ==
  [][\A g \in GameIds, p \in PlayerIds :
       (/\ lastOp'.op \in EliminateOps
        /\ lastOp'.ok
        /\ lastOp'.gameId = g
        /\ lastOp'.playerId = p
        /\ games[g].players[p].role # "survivor") =>
         /\ ~Emitted("game_ended", g)'
         /\ games'[g].status = games[g].status]_vars

\* ------------------------------------------------------------------ C11
\* C11: whenever startEliminationRiskTimer(g, p, d) succeeds, the delay the
\* player's elimination-risk timer is armed with and the duration reported
\* in elimination_risk_started both equal base * 3.0 rounded down when p's
\* ability is MERCENARY and base otherwise, where base is d if it was given
\* and the game's eliminationRiskDuration setting if not.
C11_MercenaryDuration ==
  [][(lastOp'.op = "startEliminationRiskTimer" /\ lastOp'.ok) =>
       LET g == lastOp'.gameId
           p == lastOp'.playerId
           base == IF lastOp'.duration # NoDuration THEN lastOp'.duration
                   ELSE games[g].settings.eliminationRiskDuration
           expected == IF games[g].players[p].ability = "MERCENARY"
                       THEN (base * (10 * MercenaryMultiplier)) \div 10
                       ELSE base
           h == games'[g].timers.eliminationRiskTimers[p]
       IN /\ h # NoTimer
          /\ timeouts'[h].kind = "risk"
          /\ timeouts'[h].playerId = p
          /\ timeouts'[h].delay = expected
          /\ Len(emitted') = 1
          /\ emitted'[1].type = "elimination_risk_started"
          /\ emitted'[1].playerId = p
          /\ emitted'[1].duration = expected
          /\ emitted'[1].isMercenary =
               (games[g].players[p].ability = "MERCENARY")]_vars

\* a MERCENARY was put at risk with a duration of its own, and the timer is
\* armed with three times that duration
C11_Witness ==
  /\ lastOp.op = "startEliminationRiskTimer"
  /\ lastOp.ok
  /\ lastOp.duration # NoDuration
  /\ games[lastOp.gameId].players[lastOp.playerId].ability = "MERCENARY"
  /\ emitted[1].duration = 3 * lastOp.duration
  /\ \E t \in TimerIds : /\ timeouts[t].kind = "risk"
                         /\ timeouts[t].delay = 3 * lastOp.duration

\* ------------------------------------------------------------------ C12
\* C12: when a successful eliminatePlayer(g, p, reason) eliminates the last
\* un-eliminated survivor of a playing game, the events of that call carry
\* player_eliminated for p strictly before game_ended with reason
\* "all_survivors_eliminated"; when another un-eliminated survivor remains,
\* player_eliminated for p is broadcast, no game_ended is, and the game
\* stays playing.
C12_EliminatedBeforeEnded ==
  [][\A g \in GameIds, p \in PlayerIds :
       (/\ lastOp'.op \in EliminateOps
        /\ lastOp'.ok
        /\ lastOp'.gameId = g
        /\ lastOp'.playerId = p
        /\ games[g].status = "playing") =>
         /\ SurvivorsLeft(games[g]) = {p} =>
              \E i, j \in DOMAIN emitted' :
                /\ i < j
                /\ emitted'[i].type = "player_eliminated"
                /\ emitted'[i].gameId = g
                /\ emitted'[i].playerId = p
                /\ emitted'[j].type = "game_ended"
                /\ emitted'[j].gameId = g
                /\ emitted'[j].reason = "all_survivors_eliminated"
                /\ \A k \in DOMAIN emitted' :
                     emitted'[k].type = "game_ended" => k > i
         /\ SurvivorsLeft(games[g]) \ {p} # {} =>
              /\ \E i \in DOMAIN emitted' :
                   /\ emitted'[i].type = "player_eliminated"
                   /\ emitted'[i].gameId = g
                   /\ emitted'[i].playerId = p
              /\ ~Emitted("game_ended", g)'
              /\ games'[g].status = "playing"]_vars

\* the only player of a playing game, a survivor, was eliminated and the
\* game ended: player_eliminated first, game_ended second
C12_Witness ==
  /\ lastOp.op \in EliminateOps
  /\ lastOp.ok
  /\ games[lastOp.gameId].status = "ended"
  /\ games[lastOp.gameId].players[lastOp.playerId].role = "survivor"
  /\ \A q \in PlayerIds \ {lastOp.playerId} :
       games[lastOp.gameId].players[q] = NoPlayer
  /\ Len(emitted) = 2
  /\ emitted[1].type = "player_eliminated"
  /\ emitted[2].type = "game_ended"

\* ------------------------------------------------------------------ C13
\* C13: right after a successful endGame(g, reason), whoever called it, game
\* g holds no timer: its game timer is absent, its elimination-risk and chase
\* timer maps are empty, and every timer it held at the call is cancelled
\* (its handle is free, or taken again by the cleanup endGame arms).
C13_EndGameCancelsAll ==
  [][\A g \in GameIds :
       (games[g] # NoGame /\ Emitted("game_ended", g)') =>
         /\ games'[g].timers.gameTimer = NoTimer
         /\ \A p \in PlayerIds :
              games'[g].timers.eliminationRiskTimers[p] = NoTimer
         /\ \A k \in ChaseKeys : games'[g].timers.chaseTimers[k] = NoTimer
         /\ \A h \in HeldTimers(games[g]) :
              timeouts'[h].kind \in {"free", "cleanup"}]_vars

\* a client ended a game that had a player at risk: the game holds no timer
\* and the only pending callback is the cleanup
C13_Witness ==
  /\ lastOp.op = "endGame"
  /\ lastOp.ok
  /\ Emitted("game_ended", lastOp.gameId)
  /\ \E p \in PlayerIds :
       /\ games[lastOp.gameId].players[p] # NoPlayer
       /\ games[lastOp.gameId].players[p].status = "elimination_risk"
  /\ HeldTimers(games[lastOp.gameId]) = {}
  /\ \A t \in TimerIds : timeouts[t].kind \in {"free", "cleanup"}
  /\ \E t \in TimerIds : timeouts[t].kind = "cleanup"

\* ------------------------------------------------------------------ C14
\* C14: join is idempotent by playerId.  Every join(g, p, profile), from any
\* connection, leaves one entry for p in g that holds the role and ability of
\* this join with status alive, and leaves the entries of the other players
\* as they were; when p already had an entry (a second join with the same
\* id), the set of players of g, and so their number, is the same as before.
C14_JoinIdempotent ==
  [][\A g \in GameIds, p \in PlayerIds :
       (/\ lastOp'.op = "joinGame"
        /\ lastOp'.gameId = g
        /\ lastOp'.playerId = p) =>
         /\ games'[g].players[p] =
              [playerId |-> p, role |-> emitted'[1].role,
               ability |-> emitted'[1].ability, status |-> "alive"]
         /\ players'[lastOp'.socketId] = [gameId |-> g, playerId |-> p]
         /\ \A q \in PlayerIds \ {p} :
              games'[g].players[q] =
                IF games[g] = NoGame THEN NoPlayer ELSE games[g].players[q]
         /\ p \in PlayersOf(games[g]) =>
              /\ PlayersOf(games'[g]) = PlayersOf(games[g])
              /\ Cardinality(PlayersOf(games'[g])) =
                   Cardinality(PlayersOf(games[g]))]_vars

\* the same player id joined from two connections, the later join with the
\* hunter profile: one entry, alive, with the data of the later join
C14_Witness ==
  /\ lastOp.op = "joinGame"
  /\ \A s \in SocketIds :
       players[s] = [gameId |-> lastOp.gameId, playerId |-> lastOp.playerId]
  /\ PlayersOf(games[lastOp.gameId]) = {lastOp.playerId}
  /\ emitted[1].role = "hunter"
  /\ games[lastOp.gameId].players[lastOp.playerId].role = "hunter"
  /\ games[lastOp.gameId].players[lastOp.playerId].status = "alive"

\* ------------------------------------------------------------------ C15
\* C15: eliminatedAt and eliminationReason of a player are written once.  Once
\* a successful eliminatePlayer has set them on p's entry, no later handler
\* or callback changes either of them for as long as that entry lives (a
\* join with the same id replaces the entry, a disconnect removes it: neither
\* is counted).
C15_EliminationWrittenOnce ==
  [][\A g \in GameIds, p \in RecPlayerIds :
       (/\ games[g] # NoGame
        /\ games[g].players[p] # NoPlayer
        /\ "eliminationReason" \in DOMAIN games[g].players[p]
        /\ lastOp'.op # "joinGame"
        /\ games'[g].players[p] # NoPlayer) =>
         /\ games'[g].players[p].eliminatedAt =
              games[g].players[p].eliminatedAt
         /\ games'[g].players[p].eliminationReason =
              games[g].players[p].eliminationReason]_vars

\* ------------------------------------------------------------------ C16
\* C16: chase timers of distinct ordered pairs are independent.  A
\* startChaseCountdown, stopChaseCountdown or chaseTimeout for the pair
\* (h, s) leaves the chase timer game g holds for any other ordered pair
\* (h2, s2) pending, and leaves it in g's chase timer map.
C16_ChasePairsIndependent ==
  [][\A g \in GameIds, t \in TimerIds :
       (/\ lastOp'.op \in {"startChaseCountdown", "stopChaseCountdown",
                           "chaseTimerFires"}
        /\ lastOp'.ok
        /\ lastOp'.gameId = g
        /\ games[g] # NoGame
        /\ timeouts[t].kind = "chase"
        /\ timeouts[t].gameId = g
        /\ <<timeouts[t].hunterId, timeouts[t].survivorId>> #
             <<lastOp'.hunterId, lastOp'.survivorId>>
        /\ games[g].timers.chaseTimers[timerKey(timeouts[t].hunterId,
                                                timeouts[t].survivorId)] = t)
       =>
         /\ timeouts'[t] = timeouts[t]
         /\ games'[g].timers.chaseTimers[timerKey(timeouts[t].hunterId,
                                                  timeouts[t].survivorId)] = t
    ]_vars

\* ------------------------------------------------------------------ C17
\* C17: in every reachable state, for every game g of the registry and every
\* player p of g, p's status is elimination_risk if and only if g holds a
\* pending elimination-risk timer for p.
C17_RiskStatusIffTimer ==
  \A g \in GameIds, p \in PlayerIds :
    (games[g] # NoGame /\ games[g].players[p] # NoPlayer) =>
      (games[g].players[p].status = "elimination_risk"
         <=> /\ games[g].timers.eliminationRiskTimers[p] # NoTimer
             /\ timeouts[games[g].timers.eliminationRiskTimers[p]] =
                  [kind |-> "risk", gameId |-> g, playerId |-> p])

\* ------------------------------------------------------------------ C18
\* C18: whenever the deferred cleanup removes a game from the registry, that
\* game has status ended and holds no game, elimination-risk or chase
\* timer; and a game, elimination-risk or chase callback only ever runs
\* against the game that armed it, which still holds its handle.
C18_CleanupOnlyFinishedGames ==
  [][\A g \in GameIds :
       /\ (games[g] # NoGame /\ games'[g] = NoGame) =>
            /\ games[g].status = "ended"
            /\ HeldTimers(games[g]) = {}
       /\ (/\ lastOp'.op \in TimerOps
           /\ lastOp'.ok
           /\ lastOp'.gameId = g) =>
            lastOp'.timer \in HeldTimers(games[g])]_vars

\* ------------------------------------------------------------------ C19
\* C19: a disconnect only removes the player bound to the disconnecting
\* connection.  When connection s is still bound to player p of game g but
\* p has re-joined on another connection (the socketId of p's entry is not
\* s), the disconnect of s leaves p's entry and p's elimination-risk timer
\* in place; and in every reachable state each binding of the player
\* directory names a player entry that exists in its game.
C19_DisconnectOnlyOwnPlayer ==
  [][/\ \A s \in SocketIds :
          (/\ lastOp'.op = "disconnectPlayer"
           /\ lastOp'.ok
           /\ lastOp'.socketId = s
           /\ games[players[s].gameId] # NoGame
           /\ games[players[s].gameId].players[players[s].playerId]
                # NoPlayer
           /\ games[players[s].gameId].players[players[s].playerId].socketId
                # s) =>
            LET g == players[s].gameId
                p == players[s].playerId
            IN /\ games'[g].players[p] = games[g].players[p]
               /\ games'[g].timers.eliminationRiskTimers[p] =
                    games[g].timers.eliminationRiskTimers[p]
               /\ timeouts' = timeouts
     /\ \A s \in SocketIds :
          players'[s] # NoBinding =>
            /\ games'[players'[s].gameId] # NoGame
            /\ games'[players'[s].gameId].players[players'[s].playerId]
                 # NoPlayer]_vars

\* ------------------------------------------------------------------ C20
\* C20: in every reachable state, for every game g of the registry, g's
\* status is playing if and only if g holds a game timer and that timer is
\* pending; a waiting or an ended game holds no game timer.
C20_PlayingIffGameTimer ==
  \A g \in GameIds :
    games[g] # NoGame =>
      /\ games[g].status = "playing"
           <=> /\ games[g].timers.gameTimer # NoTimer
               /\ timeouts[games[g].timers.gameTimer] =
                    [kind |-> "game", gameId |-> g]
      /\ games[g].status \in {"waiting", "ended"} =>
           games[g].timers.gameTimer = NoTimer

\* a game that had ended was started again: it is playing, holds a pending
\* game timer, and the cleanup of its first end is still pending
C20_Witness ==
  /\ lastOp.op = "startGameTimer"
  /\ lastOp.ok
  /\ games[lastOp.gameId].status = "playing"
  /\ games[lastOp.gameId].endedAt
  /\ games[lastOp.gameId].timers.gameTimer # NoTimer
  /\ timeouts[games[lastOp.gameId].timers.gameTimer].kind = "game"
  /\ \E t \in TimerIds : timeouts[t].kind = "cleanup"

====
